---- MODULE Spec2Model ----
(***************************************************************************)
(* A model of lambda_function.py: the pressure-trend analysis and the      *)
(* notification composition of the KiatsuNotification Lambda function.     *)
(*                                                                         *)
(* Units.  Pressures are integers in tenths of a hectopascal (1010 hPa is  *)
(* 10100), so that the half-hPa steps of the synthetic series and the one  *)
(* decimal place of the "{:.1f}" formats are exact.  An average is kept as *)
(* the exact fraction sum/len ([n |-> sum, d |-> len]); comparisons are    *)
(* made by cross-multiplication.  Timestamps are Unix seconds.             *)
(*                                                                         *)
(* Python values.  A call either returns or raises: Ret(v) / Raise(e).     *)
(* None, the string 'N/A' and numbers are tagged records (PyNone, PyNA,    *)
(* PyNum).  A str is a sequence of characters; a message is a sequence of  *)
(* parts, each a record with a "kind" field, in the order the code         *)
(* appends them.                                                           *)
(***************************************************************************)
EXTENDS Integers, Sequences, FiniteSets, TLC

VARIABLES
    env,            \* the module globals read from the environment (lines 35-47)
    groq,           \* what the text-generation service answers in this run
    payload,        \* the payload handed to the function under call
    call,           \* the call made: [op, ret, requests, calls]
    environ,        \* os.environ
    world,          \* what the other collaborators do in this run
    s3,             \* the objects of the bucket: key |-> body
    lambda_handler, \* the definition the name lambda_handler is bound to
    pc,             \* where the module load or the invocation stands
    frame,          \* the locals of the running handler
    log,            \* the outbound calls and compositions so far, in order
    result          \* what the invocation returned

funVars == <<env, groq, payload>>
runVars == <<environ, world, s3, lambda_handler, pc, frame, log, result>>
vars == <<env, groq, payload, call, environ, world, s3, lambda_handler, pc, frame,
          log, result>>

(***************************************************************************)
(* Bounds of the model.                                                    *)
(***************************************************************************)
MaxHourlyLen == 9
MaxSeriesLen == 3
MaxCondLen == 2
MaxEdgeLen == 2
MaxDay == 3

(***************************************************************************)
(* Python values.                                                          *)
(***************************************************************************)
Ret(v) == [exc |-> "", val |-> v]
Raise(e) == [exc |-> e, val |-> <<>>]

PyNone == [t |-> "None", n |-> 0, d |-> 1]
PyNA == [t |-> "N/A", n |-> 0, d |-> 1]
PyNum(n, d) == [t |-> "num", n |-> n, d |-> d]

NoneStr == "<None>"
Truthy(s) == s \notin {NoneStr, ""}

Abs(x) == IF x < 0 THEN -x ELSE x

\* str.lower() of one character: only the Latin letters have a lower case.
LowerChar(c) == IF c = "A" THEN "a" ELSE c
LowerStr(s) == [i \in DOMAIN s |-> LowerChar(s[i])]
\* str.lower() of the values the USE_GROQ variable takes.
LowerWord(w) == IF w \in {"TRUE", "True"} THEN "true" ELSE w

\* c in s, for a one-character c.
Contains(s, c) == \E i \in DOMAIN s : s[i] = c

\* round() to the nearest integer of n/d (n >= 0, d > 0), ties to even: the
\* rounding of the "{:.0f}" and "{:.1f}" formats on an exact value.
RoundHalfEven(n, d) ==
    LET q == n \div d
        r == n % d
    IN  IF 2 * r < d THEN q
        ELSE IF 2 * r > d THEN q + 1
        ELSE IF q % 2 = 0 THEN q ELSE q + 1

\* f"{x:.1f}" of x = n/d tenths: the number of tenths printed.
Fmt1(n, d) == RoundHalfEven(n, d)
\* f"{x:.0f}" of x = n/d tenths: the whole hPa printed.
Fmt0(n, d) == RoundHalfEven(n, d * 10)

(***************************************************************************)
(* Time: datetime.fromtimestamp(ts, JST).  Asia/Tokyo is UTC+9 all year.   *)
(***************************************************************************)
JSTDate(ts) == (ts + 32400) \div 86400
JSTSecondOfDay(ts) == (ts + 32400) % 86400

\* dt.strftime('%m/%d %H:%M'): the calendar day (as its day number) and the
\* wall-clock hour and minute.
StrfTime(ts) ==
    [day |-> JSTDate(ts),
     hour |-> JSTSecondOfDay(ts) \div 3600,
     minute |-> (JSTSecondOfDay(ts) % 3600) \div 60]

\* get_day_name: "month/day(weekday)" of a date; day 0 (1970-01-01) is a
\* Thursday, weekday() 3.
get_day_name(date) == [date |-> date, weekday |-> (date + 3) % 7]

(***************************************************************************)
(* Advice Composer: get_default_health_advice, get_pressure_health_advice. *)
(* The characters the code looks for are written "ame" (rain), "yuki"      *)
(* (snow), "kumori" (cloud) and "hare" (clear); any other character of a   *)
(* description is "x" or a Latin letter.  An optional str is               *)
(* [none |-> BOOLEAN, s |-> str].                                          *)
(***************************************************************************)
NoCondition == [none |-> TRUE, s |-> <<>>]
Condition(s) == [none |-> FALSE, s |-> s]

Templates == {"rain", "snow", "cloudy", "sunny", "general"}
DefaultAdvice(t) == [source |-> "default", template |-> t, content |-> <<>>]

\* A variant that looks for the cloud character before the rain character.
get_default_health_advice_cloud_first(weather_condition) ==
    IF ~weather_condition.none /\ weather_condition.s # <<>>
    THEN LET w == LowerStr(weather_condition.s)
         IN  IF Contains(w, "kumori") THEN DefaultAdvice("cloudy")
             ELSE IF Contains(w, "ame") THEN DefaultAdvice("rain")
             ELSE IF Contains(w, "yuki") THEN DefaultAdvice("snow")
             ELSE IF Contains(w, "hare") THEN DefaultAdvice("sunny")
             ELSE DefaultAdvice("general")
    ELSE DefaultAdvice("general")

\* Lines 458-514
get_default_health_advice(weather_condition) ==
    IF ~weather_condition.none /\ weather_condition.s # <<>>
    THEN LET w == LowerStr(weather_condition.s)
         IN  IF Contains(w, "ame") THEN DefaultAdvice("rain")
             ELSE IF Contains(w, "yuki") THEN DefaultAdvice("snow")
             ELSE IF Contains(w, "kumori") THEN DefaultAdvice("cloudy")
             ELSE IF Contains(w, "hare") THEN DefaultAdvice("sunny")
             ELSE DefaultAdvice("general")
    ELSE DefaultAdvice("general")

\* dict.get(key, default)
DictGet(dict, key, default) == IF key \in DOMAIN dict THEN dict[key] ELSE default

\* str.strip(): leading and trailing blanks removed.
RECURSIVE LStrip(_)
LStrip(s) == IF s # <<>> /\ Head(s) = " " THEN LStrip(Tail(s)) ELSE s
RECURSIVE RStrip(_)
RStrip(s) ==
    IF s # <<>> /\ s[Len(s)] = " " THEN RStrip(SubSeq(s, 1, Len(s) - 1)) ELSE s
Strip(s) == RStrip(LStrip(s))

\* A variant that tests the flag alone.
GroqEnabledFlagOnly == Truthy(env.USE_GROQ) /\ LowerWord(env.USE_GROQ) = "true"
\* Line 372: the generation tier is tried only with the flag and the key.
GroqEnabled ==
    /\ Truthy(env.USE_GROQ)
    /\ LowerWord(env.USE_GROQ) = "true"
    /\ Truthy(env.GROQ_API_KEY)

\* Lines 383-390: the wording of the 24h change in the prompt.  Comparing
\* None with 0 raises TypeError.
ChangeDescription(pressure_change) ==
    IF pressure_change.t = "N/A" THEN Ret([word |-> "", amount |-> PyNA])
    ELSE IF pressure_change.t = "None" THEN Raise("TypeError")
    ELSE IF pressure_change.n > 0
         THEN Ret([word |-> "risen", amount |-> pressure_change])
    ELSE IF pressure_change.n < 0
         THEN Ret([word |-> "dropped",
                   amount |-> PyNum(Abs(pressure_change.n), pressure_change.d)])
    ELSE Ret([word |-> "unchanged", amount |-> PyNum(0, 1)])

\* Lines 378-401: the prompt, as the three values embedded in it.
Prompt(pressure_data, weather_condition, description) ==
    [current_pressure |-> DictGet(pressure_data, "current_pressure", PyNA),
     change_description |-> description,
     weather_info |-> IF ~weather_condition.none /\ weather_condition.s # <<>>
                      THEN weather_condition.s ELSE <<>>]

\* Lines 432-447: the answer of the service turned into advice.
GroqAnswer(weather_condition) ==
    IF groq.raises THEN Raise("RequestException")
    ELSE IF groq.status_code = 200
         THEN IF groq.has_content
              THEN Ret([source |-> "groq", template |-> "",
                        content |-> Strip(groq.content)])
              ELSE Raise("KeyError")
    ELSE Ret(get_default_health_advice(weather_condition))

\* Lines 373-447, the body of the try: what it returns or raises, and the
\* requests posted to the service on the way.
GroqTry(pressure_data, weather_condition) ==
    LET desc == ChangeDescription(DictGet(pressure_data, "pressure_change", PyNA))
    IN  IF desc.exc # ""
        THEN [out |-> Raise(desc.exc), requests |-> <<>>]
        ELSE [out |-> GroqAnswer(weather_condition),
              requests |-> <<Prompt(pressure_data, weather_condition, desc.val)>>]

\* A variant whose except clause is missing: the try's exception escapes.
get_pressure_health_advice_no_except(pressure_data, weather_condition) ==
    IF GroqEnabled
    THEN GroqTry(pressure_data, weather_condition)
    ELSE [out |-> Ret(get_default_health_advice(weather_condition)),
          requests |-> <<>>]

\* Lines 372-456.  [out, requests]: the call's outcome and its outbound calls.
get_pressure_health_advice(pressure_data, weather_condition) ==
    IF GroqEnabled
    THEN LET try == GroqTry(pressure_data, weather_condition)
         IN  IF try.out.exc # ""
             THEN [out |-> Ret(get_default_health_advice(weather_condition)),
                   requests |-> try.requests]
             ELSE try
    ELSE [out |-> Ret(get_default_health_advice(weather_condition)),
          requests |-> <<>>]

(***************************************************************************)
(* Payloads.  A payload is None, or a dict with or without the 'list' key: *)
(* [isNone, hasList, list].  An entry of the list is a sample:             *)
(* [dt, hasPressure, pressure, temp, hasWeather, weather], weather being   *)
(* the list of the descriptions of item['weather'] and temp the            *)
(* temperature in tenths of a degree.                                      *)
(***************************************************************************)
NonePayload == [isNone |-> TRUE, hasList |-> FALSE, list |-> <<>>]
NoListPayload == [isNone |-> FALSE, hasList |-> FALSE, list |-> <<>>]
ListPayload(l) == [isNone |-> FALSE, hasList |-> TRUE, list |-> l]

Sample(dt, pressure, description) ==
    [dt |-> dt, hasPressure |-> TRUE, pressure |-> pressure, temp |-> 200,
     hasWeather |-> TRUE, weather |-> <<description>>]

\* A variant that tests the payload for None alone.
LacksListNoneOnly(data) == data.isNone
\* "not data or 'list' not in data"
LacksList(data) == data.isNone \/ ~data.hasList

(***************************************************************************)
(* Daily Aggregator: process_forecast_data.  The dict it returns is the    *)
(* sequence of its values in insertion order; date_str is the day number   *)
(* of the sample's date in Asia/Tokyo.                                     *)
(***************************************************************************)
RECURSIVE SeqSum(_)
SeqSum(s) == IF s = <<>> THEN 0 ELSE Head(s) + SeqSum(Tail(s))
SeqMax(s) == CHOOSE x \in {s[i] : i \in DOMAIN s} : \A i \in DOMAIN s : s[i] <= x
SeqMin(s) == CHOOSE x \in {s[i] : i \in DOMAIN s} : \A i \in DOMAIN s : x <= s[i]

Count(s, v) == Cardinality({i \in DOMAIN s : s[i] = v})
\* Counter(weather).most_common(1)[0][0]: the most frequent description,
\* the first encountered among equals.
MostCommon(s) ==
    LET best == CHOOSE i \in DOMAIN s :
                    /\ \A j \in DOMAIN s : Count(s, s[j]) <= Count(s, s[i])
                    /\ \A j \in 1..(i - 1) : Count(s, s[j]) < Count(s, s[i])
    IN  s[best]

DateKeyUTC(item) == item.dt \div 86400
\* Lines 118-119: the date of the sample in Asia/Tokyo.
DateKey(item) == JSTDate(item.dt)

\* The position of date_str among the keys, 0 when it is not a key.
KeyIndex(daily_data, date_str) ==
    IF \E i \in DOMAIN daily_data : daily_data[i].date_str = date_str
    THEN CHOOSE i \in DOMAIN daily_data : daily_data[i].date_str = date_str
    ELSE 0

\* Lines 122-129
NewBucket(date_str) ==
    [date_str |-> date_str, pressures |-> <<>>, temps |-> <<>>, weather |-> <<>>,
     date |-> date_str, day_name |-> get_day_name(date_str)]

\* Lines 118-136: one pass of the loop body.
GroupItem(daily_data, item) ==
    LET date_str == DateKey(item)
        k == KeyIndex(daily_data, date_str)
        with == IF k = 0 THEN Append(daily_data, NewBucket(date_str))
                ELSE daily_data
        j == IF k = 0 THEN Len(with) ELSE k
    IN  IF ~item.hasPressure THEN Raise("KeyError")
        ELSE IF ~item.hasWeather THEN Raise("KeyError")
        ELSE IF Len(item.weather) = 0 THEN Raise("IndexError")
        ELSE Ret([with EXCEPT
                     ![j].pressures = Append(@, item.pressure),
                     ![j].temps = Append(@, item.temp),
                     ![j].weather = Append(@, item.weather[1])])

\* Lines 116-136: the loop over items lo..hi in order, from daily_data on;
\* it stops at the first item that raises.  The range is walked by halves,
\* first half first, which keeps the evaluation shallow on long lists.
RECURSIVE GroupItems(_, _, _, _)
GroupItems(list, lo, hi, daily_data) ==
    IF lo > hi THEN Ret(daily_data)
    ELSE IF lo = hi THEN GroupItem(daily_data, list[lo])
    ELSE LET mid == (lo + hi) \div 2
             first == GroupItems(list, lo, mid, daily_data)
         IN  IF first.exc # "" THEN first
             ELSE GroupItems(list, mid + 1, hi, first.val)

\* Lines 140, 143: sum(values) / len(values), as an exact fraction.
Average(values) == [n |-> SeqSum(values), d |-> Len(values)]

\* Lines 139-149
Summarize(data) ==
    [date_str |-> data.date_str, pressures |-> data.pressures,
     temps |-> data.temps, weather |-> data.weather,
     date |-> data.date, day_name |-> data.day_name,
     avg_pressure |-> Average(data.pressures),
     max_pressure |-> SeqMax(data.pressures),
     min_pressure |-> SeqMin(data.pressures),
     avg_temp |-> Average(data.temps),
     max_temp |-> SeqMax(data.temps),
     min_temp |-> SeqMin(data.temps),
     common_weather |-> MostCommon(data.weather)]

\* Lines 104-151
process_forecast_data(forecast_data) ==
    IF forecast_data.isNone THEN Raise("TypeError")
    ELSE IF ~forecast_data.hasList THEN Raise("KeyError")
    ELSE LET grouped == GroupItems(forecast_data.list, 1, Len(forecast_data.list), <<>>)
         IN  IF grouped.exc # "" THEN grouped
             ELSE Ret([i \in DOMAIN grouped.val |-> Summarize(grouped.val[i])])

(***************************************************************************)
(* Message Builder, 5-day message: format_pressure_message.                *)
(***************************************************************************)
\* b.avg_pressure - a.avg_pressure as a fraction with a positive denominator.
AvgDiff(a, b) ==
    [n |-> b.avg_pressure.n * a.avg_pressure.d - a.avg_pressure.n * b.avg_pressure.d,
     d |-> a.avg_pressure.d * b.avg_pressure.d]

TrendBandInclusive(change) ==
    IF change.n >= env.PRESSURE_CHANGE_THRESHOLD * change.d THEN "sharp_rise"
    ELSE IF change.n > 0 THEN "mild_rise"
    ELSE IF change.n <= -env.PRESSURE_CHANGE_THRESHOLD * change.d THEN "sharp_fall"
    ELSE IF change.n < 0 THEN "mild_fall"
    ELSE "stable"
\* Lines 537-546: which sentence is chosen.
TrendBand(change) ==
    IF change.n > env.PRESSURE_CHANGE_THRESHOLD * change.d THEN "sharp_rise"
    ELSE IF change.n > 0 THEN "mild_rise"
    ELSE IF change.n < -env.PRESSURE_CHANGE_THRESHOLD * change.d THEN "sharp_fall"
    ELSE IF change.n < 0 THEN "mild_fall"
    ELSE "stable"

IsLowPressureInclusive(day_data) ==
    day_data.avg_pressure.n <= env.PRESSURE_THRESHOLD * day_data.avg_pressure.d
\* Lines 552, 566: avg_pressure < PRESSURE_THRESHOLD
IsLowPressure(day_data) ==
    day_data.avg_pressure.n < env.PRESSURE_THRESHOLD * day_data.avg_pressure.d

\* Lines 549-553, 563-567: the day names of the low-pressure days.
RECURSIVE LowPressureDays(_)
LowPressureDays(daily_data) ==
    IF daily_data = <<>> THEN <<>>
    ELSE (IF IsLowPressure(Head(daily_data)) THEN <<Head(daily_data).day_name>>
          ELSE <<>>) \o LowPressureDays(Tail(daily_data))

IsNotableChangeStrict(change) ==
    Abs(change.n) > env.PRESSURE_CHANGE_THRESHOLD * change.d
\* Line 581: abs(change) >= PRESSURE_CHANGE_THRESHOLD
IsNotableChange(change) ==
    Abs(change.n) >= env.PRESSURE_CHANGE_THRESHOLD * change.d

\* Lines 574-583: the entries of the pressure-changes line from pair i on.
RECURSIVE PressureChanges(_, _)
PressureChanges(daily_data, i) ==
    IF i > Len(daily_data) THEN <<>>
    ELSE LET change == AvgDiff(daily_data[i - 1], daily_data[i])
         IN  (IF IsNotableChange(change)
              THEN <<[day_name |-> daily_data[i].day_name,
                      amount |-> Fmt1(Abs(change.n), change.d),
                      direction |-> IF change.n > 0 THEN "rose" ELSE "fell"]>>
              ELSE <<>>) \o PressureChanges(daily_data, i + 1)

\* Lines 531-556: the points section.
PointsSection(daily_data) ==
    <<[kind |-> "points_header"]>>
    \o (IF Len(daily_data) > 1
        THEN LET change == AvgDiff(daily_data[1], daily_data[2])
                 low == LowPressureDays(daily_data)
             IN  <<[kind |-> "trend", band |-> TrendBand(change),
                    amount |-> Fmt1(Abs(change.n), change.d)]>>
                 \o (IF low # <<>>
                     THEN <<[kind |-> "low_days_forecast", days |-> low]>>
                     ELSE <<>>)
        ELSE <<>>)

\* Lines 558-597: the current pressure, the two listings and the table.
SummarySection(daily_data) ==
    LET low == LowPressureDays(daily_data)
        changes == PressureChanges(daily_data, 2)
    IN  <<[kind |-> "current",
           pressure |-> Fmt0(daily_data[1].avg_pressure.n,
                             daily_data[1].avg_pressure.d)]>>
        \o (IF low # <<>> THEN <<[kind |-> "low_days", days |-> low]>> ELSE <<>>)
        \o (IF changes # <<>> THEN <<[kind |-> "changes", entries |-> changes]>>
            ELSE <<>>)
        \o <<[kind |-> "table_header"]>>
        \o [i \in DOMAIN daily_data |->
               [kind |-> "day", day_name |-> daily_data[i].day_name,
                pressure |-> Fmt0(daily_data[i].avg_pressure.n,
                                  daily_data[i].avg_pressure.d),
                weather |-> daily_data[i].common_weather]]

\* Lines 600-611: the dict handed to the Advice Composer.
DailyPressureData(daily_data) ==
    [current_pressure |-> PyNum(daily_data[1].avg_pressure.n,
                                daily_data[1].avg_pressure.d),
     pressure_change |-> IF Len(daily_data) > 1
                         THEN LET change == AvgDiff(daily_data[1], daily_data[2])
                              IN  PyNum(change.n, change.d)
                         ELSE PyNone]

\* Lines 516-614
format_pressure_message(forecast_data) ==
    IF LacksList(forecast_data)
    THEN [out |-> Ret(<<[kind |-> "failure_5day"]>>), requests |-> <<>>,
          calls |-> <<>>]
    ELSE LET processed == process_forecast_data(forecast_data)
         IN  IF processed.exc # ""
             THEN [out |-> processed, requests |-> <<>>,
                   calls |-> <<"process_forecast_data">>]
             ELSE IF Len(processed.val) = 0
                  THEN [out |-> Raise("IndexError"), requests |-> <<>>,
                        calls |-> <<"process_forecast_data">>]
             ELSE LET daily_data == processed.val
                      health == get_pressure_health_advice(
                                    DailyPressureData(daily_data),
                                    Condition(daily_data[1].common_weather))
                  IN  [out |-> Ret(<<[kind |-> "header_5day"]>>
                                   \o PointsSection(daily_data)
                                   \o SummarySection(daily_data)
                                   \o <<[kind |-> "advice", source |-> health.out.val.source,
                                         template |-> health.out.val.template,
                                         content |-> health.out.val.content]>>),
                       requests |-> health.requests,
                       calls |-> <<"process_forecast_data",
                                   "get_pressure_health_advice">>]

(***************************************************************************)
(* Trend/Alert Detector, 24h scan: detect_pressure_alert.                  *)
(***************************************************************************)
NoTime == [none |-> TRUE, ts |-> 0]

ForecastHoursAll(list) == list
\* Line 630: hourly_data['list'][:8]
ForecastHours(list) == SubSeq(list, 1, 8)

AlertTriggeredStrict(max_pressure_change) ==
    max_pressure_change > env.PRESSURE_ALERT_THRESHOLD
\* Line 648
AlertTriggered(max_pressure_change) ==
    max_pressure_change >= env.PRESSURE_ALERT_THRESHOLD

\* Lines 637-645: the loop from index i (1-based here) on.
RECURSIVE AlertScan(_, _, _, _, _)
AlertScan(forecast_hours, i, previous_pressure, max_pressure_change, max_change_time) ==
    IF i > Len(forecast_hours)
    THEN Ret([max_pressure_change |-> max_pressure_change,
              max_change_time |-> max_change_time])
    ELSE IF ~forecast_hours[i].hasPressure THEN Raise("KeyError")
    ELSE LET current_pressure == forecast_hours[i].pressure
             pressure_change == Abs(current_pressure - previous_pressure)
         IN  IF pressure_change > max_pressure_change
             THEN AlertScan(forecast_hours, i + 1, current_pressure, pressure_change,
                            [none |-> FALSE, ts |-> forecast_hours[i].dt])
             ELSE AlertScan(forecast_hours, i + 1, current_pressure,
                            max_pressure_change, max_change_time)

NoAlert(max_pressure_change) ==
    [triggered |-> FALSE, alert_message |-> <<>>,
     max_pressure_change |-> max_pressure_change, change_time |-> <<>>]

\* Lines 616-652
detect_pressure_alert(hourly_data) ==
    IF LacksList(hourly_data) \/ Len(hourly_data.list) < 8 THEN Ret(NoAlert(0))
    ELSE LET forecast_hours == ForecastHours(hourly_data.list)
         IN  IF ~forecast_hours[1].hasPressure THEN Raise("KeyError")
             ELSE LET scan == AlertScan(forecast_hours, 2, forecast_hours[1].pressure,
                                        0, NoTime)
                  IN  IF scan.exc # "" THEN scan
                      ELSE IF AlertTriggered(scan.val.max_pressure_change)
                           THEN IF scan.val.max_change_time.none
                                THEN Raise("AttributeError")
                                ELSE LET at == StrfTime(scan.val.max_change_time.ts)
                                         mx == scan.val.max_pressure_change
                                     IN  Ret([triggered |-> TRUE,
                                              alert_message |->
                                                  <<[kind |-> "alert", time |-> at,
                                                     change |-> Fmt1(mx, 1)]>>,
                                              max_pressure_change |-> mx,
                                              change_time |-> <<at>>])
                      ELSE Ret(NoAlert(scan.val.max_pressure_change))

(***************************************************************************)
(* Message Builder, 24h message: format_hourly_pressure_message.           *)
(* Returns [out, requests, calls]: the message or the exception, the calls  *)
(* made to the generation service, and the functions of the module it      *)
(* called, in order.                                                       *)
(***************************************************************************)
ChangeSymbol(pressure_change_24h) ==
    IF pressure_change_24h > 0 THEN "up"
    ELSE IF pressure_change_24h < 0 THEN "down" ELSE "flat"

\* Lines 671-692: the lines about the first and the 24h-later sample.
HourlyHead(list) ==
    LET first_item == list[1]
        first == [kind |-> "sample", time |-> StrfTime(first_item.dt),
                  pressure |-> first_item.pressure]
    IN  IF Len(list) >= 8
        THEN IF ~list[8].hasPressure THEN Raise("KeyError")
             ELSE LET pressure_change_24h == list[8].pressure - first_item.pressure
                  IN  Ret(<<[kind |-> "header_24h"], first,
                            [kind |-> "sample", time |-> StrfTime(list[8].dt),
                             pressure |-> list[8].pressure],
                            [kind |-> "change_24h",
                             symbol |-> ChangeSymbol(pressure_change_24h),
                             amount |-> Fmt1(Abs(pressure_change_24h), 1)]>>)
        ELSE Ret(<<[kind |-> "header_24h"], first>>)

\* Lines 700-703: the dict handed to the Advice Composer.
HourlyPressureData(list) ==
    [current |-> PyNum(list[1].pressure, 1),
     change_24h |-> IF Len(list) >= 8
                    THEN PyNum(list[8].pressure - list[1].pressure, 1)
                    ELSE PyNum(0, 1)]

\* Lines 706-708
HourlyWeatherCondition(first_item) ==
    IF first_item.hasWeather /\ Len(first_item.weather) > 0
    THEN Condition(first_item.weather[1])
    ELSE NoCondition

AdvicePart(advice) ==
    [kind |-> "advice", source |-> advice.source, template |-> advice.template,
     content |-> advice.content]

\* Lines 654-716
format_hourly_pressure_message(hourly_data) ==
    IF LacksList(hourly_data)
    THEN [out |-> Ret(<<[kind |-> "failure_24h"]>>), requests |-> <<>>,
          calls |-> <<>>]
    ELSE IF Len(hourly_data.list) = 0
         THEN [out |-> Raise("IndexError"), requests |-> <<>>, calls |-> <<>>]
    ELSE IF ~hourly_data.list[1].hasPressure
         THEN [out |-> Raise("KeyError"), requests |-> <<>>, calls |-> <<>>]
    ELSE LET head == HourlyHead(hourly_data.list)
             alert == detect_pressure_alert(hourly_data)
         IN  IF head.exc # "" THEN [out |-> head, requests |-> <<>>, calls |-> <<>>]
             ELSE IF alert.exc # "" THEN [out |-> alert, requests |-> <<>>,
                                         calls |-> <<"detect_pressure_alert">>]
             ELSE LET health == get_pressure_health_advice(
                                    HourlyPressureData(hourly_data.list),
                                    HourlyWeatherCondition(hourly_data.list[1]))
                  IN  [out |-> Ret(head.val
                                   \o (IF alert.val.triggered
                                       THEN alert.val.alert_message ELSE <<>>)
                                   \o <<[kind |-> "advice_header"],
                                        AdvicePart(health.out.val)>>),
                       requests |-> health.requests,
                       calls |-> <<"detect_pressure_alert",
                                   "get_pressure_health_advice">>]

(***************************************************************************)
(* The environment: the module globals of lines 35-47, with their          *)
(* defaults, and what the generation service answers.                      *)
(***************************************************************************)
\* Lines 35-47 and 62-66: the globals, from os.environ.  An unset variable
\* is NoneStr.
Default(value, default) == IF value = NoneStr THEN default ELSE value

Globals(vars_) ==
    [OPENWEATHER_API_KEY |-> vars_.OPENWEATHER_API_KEY,
     PRESSURE_THRESHOLD |-> 10100,
     PRESSURE_CHANGE_THRESHOLD |-> 60,
     PRESSURE_ALERT_THRESHOLD |-> 80,
     GROQ_API_KEY |-> vars_.GROQ_API_KEY,
     USE_GROQ |-> Default(vars_.USE_GROQ, "true"),
     S3_ENABLED |-> LowerWord(Default(vars_.S3_ENABLED, "false")) = "true",
     REGION_CUSTOMIZATION |->
         LowerWord(Default(vars_.REGION_CUSTOMIZATION, "false")) = "true",
     CUSTOM_CITY_IDS |-> vars_.CUSTOM_CITY_IDS,
     line_bot_api |-> Truthy(vars_.LINE_CHANNEL_ACCESS_TOKEN)]

\* An environment with the provider's key and the LINE token and nothing else.
PlainEnviron ==
    [OPENWEATHER_API_KEY |-> "owm_key",
     GROQ_API_KEY |-> NoneStr,
     USE_GROQ |-> NoneStr,
     S3_ENABLED |-> NoneStr,
     REGION_CUSTOMIZATION |-> NoneStr,
     CUSTOM_CITY_IDS |-> <<"">>,
     LINE_CHANNEL_ACCESS_TOKEN |-> "line_token"]

DefaultEnv == Globals(PlainEnviron)

GroqOk(content) ==
    [raises |-> FALSE, status_code |-> 200, has_content |-> TRUE, content |-> content]
GroqStatus(code) ==
    [raises |-> FALSE, status_code |-> code, has_content |-> FALSE, content |-> <<>>]
GroqMalformed ==
    [raises |-> FALSE, status_code |-> 200, has_content |-> FALSE, content |-> <<>>]
GroqRaises ==
    [raises |-> TRUE, status_code |-> 0, has_content |-> FALSE, content |-> <<>>]

NoCall == [op |-> "", ret |-> Ret(<<>>), requests |-> <<>>, calls |-> <<>>]

\* The state of the variables of the handler while a single function is
\* applied: nothing is loaded or running.
NoWorld ==
    [main |-> FALSE, event |-> "", forecast |-> "", hourly |-> "", s3_fails |-> FALSE,
     push_fails_at |-> 0, custom |-> "", now |-> 0]
NoFrame ==
    [forecast_data |-> NonePayload, hourly_data |-> NonePayload,
     message |-> <<>>, hourly_message |-> <<>>]
NoResult == [statusCode |-> 0]

NothingRuns ==
    /\ environ = PlainEnviron
    /\ world = NoWorld
    /\ s3 = <<>>
    /\ lambda_handler = ""
    /\ pc = ""
    /\ frame = NoFrame
    /\ log = <<>>
    /\ result = NoResult

(***************************************************************************)
(* SpecHourly: the 24h scan and the 24h message applied to hourly series.  *)
(* The series are chronological at the provider's 3-hour step, of every    *)
(* length up to MaxHourlyLen, over three pressures whose steps (0, 1, 8    *)
(* and 9 hPa) fall below, on and above the alert thresholds.               *)
(***************************************************************************)
HourlyPressures == {10000, 10080, 10090}
HourlyDescription(i) == IF i = 1 THEN <<"hare", "x">> ELSE <<"ame">>

HourlySeries(pressures) ==
    [i \in DOMAIN pressures |->
        Sample((i - 1) * 10800, pressures[i], HourlyDescription(i))]

HourlyPayloads ==
    {NonePayload, NoListPayload}
    \cup {ListPayload(HourlySeries(ps)) :
            ps \in UNION {[1..n -> HourlyPressures] : n \in 0..MaxHourlyLen}}

HourlyEnvs ==
    {[DefaultEnv EXCEPT !.PRESSURE_ALERT_THRESHOLD = t, !.GROQ_API_KEY = k] :
        t \in {80, 90}, k \in {NoneStr, "gsk"}}

InitHourly ==
    /\ env \in HourlyEnvs
    /\ groq = GroqOk(<<"a">>)
    /\ payload \in HourlyPayloads
    /\ call = NoCall
    /\ NothingRuns

DetectPressureAlert ==
    /\ call.op = ""
    /\ call' = [op |-> "detect_pressure_alert",
                ret |-> detect_pressure_alert(payload), requests |-> <<>>,
                calls |-> <<>>]
    /\ UNCHANGED <<funVars, runVars>>

FormatHourlyPressureMessage ==
    /\ call.op = ""
    /\ LET r == format_hourly_pressure_message(payload)
       IN  call' = [op |-> "format_hourly_pressure_message",
                    ret |-> r.out, requests |-> r.requests,
                    calls |-> r.calls]
    /\ UNCHANGED <<funVars, runVars>>

NextHourly == DetectPressureAlert \/ FormatHourlyPressureMessage

SpecHourly == InitHourly /\ [][NextHourly]_vars

(***************************************************************************)
(* SpecDaily: the aggregator and the 5-day message applied to forecast     *)
(* series.  The samples are taken in any order from four instants on three *)
(* Tokyo dates (the second instant, 00:00 JST of day 1, is still day 0 in  *)
(* UTC) and three pressures: 1005, 1010 and 1012 hPa.                      *)
(***************************************************************************)
DailyTimes == {0, 54000, 97200, 183600}
DailyPressures == {10050, 10100, 10120}
DailyDescription(pressure) ==
    IF pressure = 10050 THEN <<"kumori", "ame">>
    ELSE IF pressure = 10100 THEN <<"kumori">> ELSE <<"hare">>

DailySamples ==
    {Sample(t, p, DailyDescription(p)) : t \in DailyTimes, p \in DailyPressures}

DailyPayloads ==
    {NonePayload, NoListPayload}
    \cup {ListPayload(l) :
            l \in UNION {[1..n -> DailySamples] : n \in 0..MaxSeriesLen}}

DailyEnvs ==
    {[DefaultEnv EXCEPT !.PRESSURE_CHANGE_THRESHOLD = t, !.GROQ_API_KEY = k] :
        t \in {60, 80}, k \in {NoneStr, "gsk"}}

InitDaily ==
    /\ env \in DailyEnvs
    /\ groq = GroqOk(<<"a">>)
    /\ payload \in DailyPayloads
    /\ call = NoCall
    /\ NothingRuns

ProcessForecastData ==
    /\ call.op = ""
    /\ call' = [op |-> "process_forecast_data",
                ret |-> process_forecast_data(payload), requests |-> <<>>,
                calls |-> <<>>]
    /\ UNCHANGED <<funVars, runVars>>

FormatPressureMessage ==
    /\ call.op = ""
    /\ LET r == format_pressure_message(payload)
       IN  call' = [op |-> "format_pressure_message",
                    ret |-> r.out, requests |-> r.requests,
                    calls |-> r.calls]
    /\ UNCHANGED <<funVars, runVars>>

NextDaily == ProcessForecastData \/ FormatPressureMessage

SpecDaily == InitDaily /\ [][NextDaily]_vars

(***************************************************************************)
(* Claims about the aggregator and the 5-day message (SpecDaily).          *)
(***************************************************************************)
\* The calendar date in Asia/Tokyo (UTC+9) of a timestamp, as a day number.
LocalDate(ts) == (ts + 9 * 3600) \div (24 * 3600)

\* The pressures of the samples of one local date, in series order.
RECURSIVE PressuresOn(_, _)
PressuresOn(list, date) ==
    IF list = <<>> THEN <<>>
    ELSE (IF LocalDate(Head(list).dt) = date THEN <<Head(list).pressure>> ELSE <<>>)
         \o PressuresOn(Tail(list), date)

FirstOccurrence(list, date) ==
    CHOOSE k \in DOMAIN list :
        /\ LocalDate(list[k].dt) = date
        /\ \A j \in 1..(k - 1) : LocalDate(list[j].dt) # date

NonEmptySeries(data) == ~LacksList(data) /\ Len(data.list) > 0

Chronological(list) == \A i \in 1..(Len(list) - 1) : list[i].dt <= list[i + 1].dt

\* C3: for a non-empty series process_forecast_data returns one bucket per
\* distinct local (Asia/Tokyo) date, in the order of the dates' first
\* occurrence; a bucket's pressures are its date's samples in series order
\* (so every sample is in exactly one bucket), avg_pressure is their sum
\* divided by their number, and max/min are their extrema.
C3_Aggregation ==
    (call.op = "process_forecast_data" /\ NonEmptySeries(payload)) =>
        /\ call.ret.exc = ""
        /\ LET buckets == call.ret.val
               list == payload.list
           IN  /\ {buckets[i].date_str : i \in DOMAIN buckets}
                      = {LocalDate(list[k].dt) : k \in DOMAIN list}
               /\ \A i, j \in DOMAIN buckets :
                      i < j => FirstOccurrence(list, buckets[i].date_str)
                                   < FirstOccurrence(list, buckets[j].date_str)
               /\ \A i \in DOMAIN buckets :
                      LET ps == PressuresOn(list, buckets[i].date_str)
                      IN  /\ buckets[i].pressures = ps
                          /\ buckets[i].avg_pressure.d > 0
                          /\ buckets[i].avg_pressure.n * Len(ps)
                                 = SeqSum(ps) * buckets[i].avg_pressure.d
                          /\ \E k \in DOMAIN ps : ps[k] = buckets[i].max_pressure
                          /\ \E k \in DOMAIN ps : ps[k] = buckets[i].min_pressure
                          /\ \A k \in DOMAIN ps :
                                 /\ ps[k] <= buckets[i].max_pressure
                                 /\ ps[k] >= buckets[i].min_pressure
               /\ SeqSum([i \in DOMAIN buckets |-> Len(buckets[i].pressures)])
                      = Len(list)

\* A series out of date order: day 1 (at 00:00 JST, still day 0 in UTC),
\* then day 0, then day 1 again, giving the buckets day 1 (two samples of
\* different pressure) and day 0.
C3_Witness ==
    /\ call.op = "process_forecast_data"
    /\ NonEmptySeries(payload)
    /\ Len(payload.list) = 3
    /\ payload.list[1].dt = 54000
    /\ LocalDate(payload.list[2].dt) = 0
    /\ LocalDate(payload.list[3].dt) = 1
    /\ payload.list[1].pressure # payload.list[3].pressure
    /\ Len(call.ret.val) = 2
    /\ call.ret.val[1].date_str = 1
    /\ Len(call.ret.val[1].pressures) = 2

\* The buckets of the payload and the day-1 to day-2 difference n/d.
Buckets == process_forecast_data(payload).val
TwoDays == NonEmptySeries(payload) /\ Len(Buckets) >= 2
TrendParts(msg) == {i \in DOMAIN msg : msg[i].kind = "trend"}
Threshold == env.PRESSURE_CHANGE_THRESHOLD

\* C2: with at least two day buckets the 5-day message holds exactly one
\* narrative sentence, chosen from d = avg(day 2) - avg(day 1): sharp rise
\* iff d > changeThreshold, mild rise iff 0 < d <= changeThreshold, mild
\* fall iff -changeThreshold <= d < 0, sharp fall iff d < -changeThreshold,
\* stable iff d = 0.
C2_TrendBand ==
    (call.op = "format_pressure_message" /\ TwoDays) =>
        /\ call.ret.exc = ""
        /\ Cardinality(TrendParts(call.ret.val)) = 1
        /\ LET band == call.ret.val[CHOOSE i \in TrendParts(call.ret.val) : TRUE].band
               c == AvgDiff(Buckets[1], Buckets[2])
           IN  /\ band = "sharp_rise" <=> c.n > Threshold * c.d
               /\ band = "mild_rise" <=> (0 < c.n /\ c.n <= Threshold * c.d)
               /\ band = "mild_fall" <=> (-Threshold * c.d <= c.n /\ c.n < 0)
               /\ band = "sharp_fall" <=> c.n < -Threshold * c.d
               /\ band = "stable" <=> c.n = 0

\* A rise of 7.0 hPa is the mild rise with a threshold of 8 hPa.
C2_Witness ==
    /\ call.op = "format_pressure_message"
    /\ TwoDays
    /\ Threshold = 80
    /\ LET c == AvgDiff(Buckets[1], Buckets[2]) IN c.n = 70 * c.d
    /\ \E i \in DOMAIN call.ret.val :
           call.ret.val[i].kind = "trend" /\ call.ret.val[i].band = "mild_rise"

\* The labels of the buckets below the pressure threshold, in bucket order.
RECURSIVE LabelsBelow(_, _)
LabelsBelow(buckets, limit) ==
    IF buckets = <<>> THEN <<>>
    ELSE (IF Head(buckets).avg_pressure.n < limit * Head(buckets).avg_pressure.d
          THEN <<get_day_name(Head(buckets).date)>> ELSE <<>>)
         \o LabelsBelow(Tail(buckets), limit)

PartsOfKind(msg, kind) == {i \in DOMAIN msg : msg[i].kind = kind}

\* C8: the low-pressure-days line of the 5-day message lists exactly the
\* labels of the buckets whose avg_pressure is strictly below
\* PRESSURE_THRESHOLD, in bucket order (increasing date for a chronological
\* series), and is absent when there is none.
C8_LowPressureDays ==
    (call.op = "format_pressure_message" /\ NonEmptySeries(payload)) =>
        /\ call.ret.exc = ""
        /\ LET lines == PartsOfKind(call.ret.val, "low_days")
               expected == LabelsBelow(Buckets, env.PRESSURE_THRESHOLD)
           IN  /\ Cardinality(lines) = IF expected = <<>> THEN 0 ELSE 1
               /\ \A i \in lines :
                      /\ call.ret.val[i].days = expected
                      /\ Chronological(payload.list) =>
                             \A a, b \in DOMAIN expected :
                                 a < b => expected[a].date < expected[b].date

\* Day 1 averages 1005 hPa and is listed; a later day averages exactly the
\* threshold, 1010 hPa, and is not.
C8_Witness ==
    /\ call.op = "format_pressure_message"
    /\ NonEmptySeries(payload)
    /\ Len(Buckets) >= 2
    /\ Buckets[1].avg_pressure.n = 10050 * Buckets[1].avg_pressure.d
    /\ Buckets[2].avg_pressure.n = env.PRESSURE_THRESHOLD * Buckets[2].avg_pressure.d
    /\ \E i \in DOMAIN call.ret.val :
           /\ call.ret.val[i].kind = "low_days"
           /\ call.ret.val[i].days = <<Buckets[1].day_name>>

\* The positions i >= 2 of the buckets whose difference to the bucket before
\* is at least the change threshold in absolute value, in increasing order.
RECURSIVE NotablePairs(_, _, _)
NotablePairs(buckets, i, limit) ==
    IF i > Len(buckets) THEN <<>>
    ELSE LET c == AvgDiff(buckets[i - 1], buckets[i])
         IN  (IF c.n >= limit * c.d \/ -c.n >= limit * c.d THEN <<i>> ELSE <<>>)
             \o NotablePairs(buckets, i + 1, limit)

\* C9: the pressure-changes line of the 5-day message has one entry for each
\* adjacent pair of buckets with |delta| >= PRESSURE_CHANGE_THRESHOLD and no
\* other, in bucket order; an entry says rose when delta > 0 and fell when
\* delta < 0; the line is absent when no pair qualifies.
C9_PressureChanges ==
    (call.op = "format_pressure_message" /\ NonEmptySeries(payload)) =>
        /\ call.ret.exc = ""
        /\ LET lines == PartsOfKind(call.ret.val, "changes")
               pairs == NotablePairs(Buckets, 2, Threshold)
           IN  /\ Cardinality(lines) = IF pairs = <<>> THEN 0 ELSE 1
               /\ \A i \in lines :
                      LET entries == call.ret.val[i].entries
                      IN  /\ Len(entries) = Len(pairs)
                          /\ \A k \in DOMAIN pairs :
                                 LET c == AvgDiff(Buckets[pairs[k] - 1], Buckets[pairs[k]])
                                 IN  /\ entries[k].day_name
                                            = get_day_name(Buckets[pairs[k]].date)
                                     /\ entries[k].direction = "rose" <=> c.n > 0
                                     /\ entries[k].direction = "fell" <=> c.n < 0

\* Day 2 averages exactly the threshold more than day 1: the pair is listed,
\* under day 2's label, as a rise.
C9_Witness ==
    /\ call.op = "format_pressure_message"
    /\ NonEmptySeries(payload)
    /\ Len(Buckets) >= 2
    /\ LET c == AvgDiff(Buckets[1], Buckets[2]) IN c.n = Threshold * c.d
    /\ \E i \in DOMAIN call.ret.val :
           /\ call.ret.val[i].kind = "changes"
           /\ call.ret.val[i].entries[1].direction = "rose"
           /\ call.ret.val[i].entries[1].day_name = Buckets[2].day_name

\* The kinds of the parts of a message, the two headings the sections carry
\* ("points_header", "table_header") left out.
SectionKinds(msg) ==
    LET parts == SelectSeq(msg, LAMBDA part :
                               part.kind \notin {"points_header", "table_header"})
    IN  [i \in DOMAIN parts |-> parts[i].kind]

\* C12: with at least two day buckets the 5-day message is, in this order
\* and with nothing else: header, one trend sentence, the current-pressure
\* line, the low-pressure-days line if any, the pressure-changes line if
\* any, one table line per bucket, the advice block; and the low-pressure
\* day labels are listed in no part but the low-pressure-days line.
C12_SectionOrder ==
    (call.op = "format_pressure_message" /\ TwoDays /\ call.ret.exc = "") =>
        LET msg == call.ret.val
            low == LabelsBelow(Buckets, env.PRESSURE_THRESHOLD)
            pairs == NotablePairs(Buckets, 2, Threshold)
        IN  /\ SectionKinds(msg)
                   = <<"header_5day", "trend", "current">>
                     \o (IF low # <<>> THEN <<"low_days">> ELSE <<>>)
                     \o (IF pairs # <<>> THEN <<"changes">> ELSE <<>>)
                     \o [i \in DOMAIN Buckets |-> "day"]
                     \o <<"advice">>
            /\ \A i \in DOMAIN msg :
                   msg[i].kind # "low_days" => "days" \notin DOMAIN msg[i]

(***************************************************************************)
(* Claims about the 24h scan and the 24h message (SpecHourly).             *)
(***************************************************************************)
SetMax(S) == CHOOSE x \in S : \A y \in S : y <= x

\* The largest consecutive-sample jump among the first 8 samples.
MaxJump8(list) == SetMax({Abs(list[i + 1].pressure - list[i].pressure) : i \in 1..7})

HasList8(data) == ~LacksList(data) /\ Len(data.list) >= 8

HasPart(ret, kind) == ret.exc = "" /\ \E i \in DOMAIN ret.val : ret.val[i].kind = kind

DeltaWording(delta) ==
    [word |-> IF delta > 0 THEN "risen" ELSE IF delta < 0 THEN "dropped" ELSE "unchanged",
     amount |-> PyNum(Abs(delta), 1)]

\* C11: when the 24h message asks the generation service for advice on a
\* series of at least 8 samples, the prompt carries the earliest sample's
\* pressure, the delta sample[7] - sample[0] and the earliest sample's
\* description.
C11_AdviceRequest ==
    (/\ call.op = "format_hourly_pressure_message"
     /\ HasList8(payload)
     /\ call.requests # <<>>) =>
        LET list == payload.list
            prompt == call.requests[1]
        IN  /\ prompt.current_pressure = PyNum(list[1].pressure, 1)
            /\ prompt.change_description
                   = DeltaWording(list[8].pressure - list[1].pressure)
            /\ prompt.weather_info = list[1].weather[1]

(***************************************************************************)
(* SpecAdvice: the Advice Composer applied to advice requests.  payload    *)
(* is the request: [pressure_data, weather_condition].                     *)
(***************************************************************************)
Chars == {"ame", "yuki", "kumori", "hare", "x", "A"}

Conditions ==
    {NoCondition}
    \cup {Condition(s) : s \in UNION {[1..n -> Chars] : n \in 0..MaxCondLen}}

\* The dicts the two message builders pass (lines 611 and 700-703).
PressureDatas ==
    {[current_pressure |-> PyNum(10050, 1), pressure_change |-> c] :
        c \in {PyNum(-30, 1), PyNum(0, 1), PyNum(45, 2), PyNone}}
    \cup {[current |-> PyNum(10050, 1), change_24h |-> PyNum(30, 1)]}

AdviceEnvs ==
    {[DefaultEnv EXCEPT !.USE_GROQ = u, !.GROQ_API_KEY = k] :
        u \in {"true", "TRUE", "false", ""}, k \in {NoneStr, "", "gsk"}}

GroqAnswers == {GroqOk(<<" ", "a", " ">>), GroqStatus(500), GroqMalformed, GroqRaises}

InitAdvice ==
    /\ env \in AdviceEnvs
    /\ groq \in GroqAnswers
    /\ payload \in [pressure_data : PressureDatas, weather_condition : Conditions]
    /\ call = NoCall
    /\ NothingRuns

GetPressureHealthAdvice ==
    /\ call.op = ""
    /\ LET r == get_pressure_health_advice(payload.pressure_data,
                                           payload.weather_condition)
       IN  call' = [op |-> "get_pressure_health_advice",
                    ret |-> r.out, requests |-> r.requests,
                    calls |-> <<>>]
    /\ UNCHANGED <<funVars, runVars>>

GetDefaultHealthAdvice ==
    /\ call.op = ""
    /\ call' = [op |-> "get_default_health_advice",
                ret |-> Ret(get_default_health_advice(payload.weather_condition)),
                requests |-> <<>>, calls |-> <<>>]
    /\ UNCHANGED <<funVars, runVars>>

NextAdvice == GetPressureHealthAdvice \/ GetDefaultHealthAdvice

SpecAdvice == InitAdvice /\ [][NextAdvice]_vars

(***************************************************************************)
(* Claims about the Advice Composer (SpecAdvice).                          *)
(***************************************************************************)
SetMin(S) == CHOOSE x \in S : \A y \in S : x <= y

\* The template of the first token, in the order rain, snow, cloud, clear,
\* that occurs in the condition; generic when none does.
TokenOrder == <<"ame", "yuki", "kumori", "hare">>
TokenTemplate == <<"rain", "snow", "cloudy", "sunny">>
FirstTokenTemplate(weather_condition) ==
    LET found == {i \in 1..4 : \E j \in DOMAIN weather_condition.s :
                                   weather_condition.s[j] = TokenOrder[i]}
    IN  IF weather_condition.none \/ found = {} THEN "general"
        ELSE TokenTemplate[SetMin(found)]

GenerationFails == groq.raises \/ groq.status_code # 200 \/ ~groq.has_content

\* C4: with external generation disabled the advice is one of the five
\* fixed templates, the one of the first matching token in the order rain,
\* snow, cloud, clear, else generic (also for an absent or empty condition),
\* and nothing is sent to the generation service.
C4_CannedAdvice ==
    /\ (call.op = "get_pressure_health_advice" /\ ~GroqEnabled) =>
           /\ call.ret.exc = ""
           /\ call.ret.val.source = "default"
           /\ call.ret.val.template \in Templates
           /\ call.ret.val.template = FirstTokenTemplate(payload.weather_condition)
           /\ call.requests = <<>>
    /\ call.op = "get_default_health_advice" =>
           /\ call.ret.val.template \in Templates
           /\ call.ret.val.template = FirstTokenTemplate(payload.weather_condition)

\* Generation is switched off by the flag and the condition holds the cloud
\* character before the rain character: the rain template is returned.
C4_Witness ==
    /\ call.op = "get_pressure_health_advice"
    /\ env.USE_GROQ = "false"
    /\ payload.weather_condition = Condition(<<"kumori", "ame">>)
    /\ call.ret.val.template = "rain"

\* C5: get_pressure_health_advice never raises, and when the generation
\* tier is enabled and the call ends in a non-success status, an exception
\* or a response without the content field, it returns the template that
\* get_default_health_advice selects for the same weather condition.
C5_AdviceFallback ==
    call.op = "get_pressure_health_advice" =>
        /\ call.ret.exc = ""
        /\ (GroqEnabled /\ GenerationFails) =>
               call.ret.val = get_default_health_advice(payload.weather_condition)

\* The tier is enabled, the request was posted and the post raised: the
\* snow template comes back.
C5_Witness ==
    /\ call.op = "get_pressure_health_advice"
    /\ GroqEnabled
    /\ groq.raises
    /\ Len(call.requests) = 1
    /\ call.ret.exc = ""
    /\ call.ret.val = DefaultAdvice("snow")

\* C17: one invocation of get_pressure_health_advice posts at most one
\* request to the generation service, and none unless the flag reads true
\* and the credential is present; a failed request is not repeated.
C17_OneOutboundCall ==
    call.op = "get_pressure_health_advice" =>
        /\ Len(call.requests) <= 1
        /\ call.requests # <<>> =>
               /\ env.USE_GROQ \in {"true", "TRUE", "True"}
               /\ env.GROQ_API_KEY \notin {NoneStr, ""}

\* The service answered the one request with status 500.
C17_Witness ==
    /\ call.op = "get_pressure_health_advice"
    /\ groq = GroqStatus(500)
    /\ Len(call.requests) = 1
    /\ call.ret.val.source = "default"

\* The wording the prompt should carry for the delta of a request: risen,
\* dropped, or unchanged for a zero, None or missing delta.
ExpectedWord(pressure_data) ==
    IF "pressure_change" \notin DOMAIN pressure_data THEN "unchanged"
    ELSE LET delta == pressure_data.pressure_change
         IN  IF delta.t # "num" THEN "unchanged"
             ELSE IF delta.n > 0 THEN "risen"
             ELSE IF delta.n < 0 THEN "dropped" ELSE "unchanged"

\* C18: with the generation tier enabled every invocation builds the
\* prompt and posts it, whatever the delta, and the prompt words the delta
\* as risen when positive, dropped when negative and unchanged when zero or
\* absent.
C18_DeltaWording ==
    (call.op = "get_pressure_health_advice" /\ GroqEnabled) =>
        /\ Len(call.requests) = 1
        /\ call.requests[1].change_description.word
               = ExpectedWord(payload.pressure_data)

(***************************************************************************)
(* SpecEdge: the aggregator, the detector and the two message builders     *)
(* applied to absent, empty and malformed payloads: None, a dict without   *)
(* 'list', the lists of up to MaxEdgeLen samples that may lack the         *)
(* pressure, the 'weather' key or the description, and the lists of 8      *)
(* samples that may lack the pressure.                                     *)
(***************************************************************************)
EdgeSample(i, shape) ==
    LET whole == Sample((i - 1) * 10800,
                        IF shape = "high" THEN 10090 ELSE 10000, <<"kumori">>)
    IN  IF shape = "no_pressure" THEN [whole EXCEPT !.hasPressure = FALSE]
        ELSE IF shape = "no_weather"
             THEN [whole EXCEPT !.hasWeather = FALSE, !.weather = <<>>]
        ELSE IF shape = "no_description" THEN [whole EXCEPT !.weather = <<>>]
        ELSE whole

EdgeSeries(shapes) == [i \in DOMAIN shapes |-> EdgeSample(i, shapes[i])]

EdgePayloads ==
    {NonePayload, NoListPayload}
    \cup {ListPayload(EdgeSeries(shapes)) :
            shapes \in UNION {[1..n -> {"whole", "no_pressure", "no_weather",
                                        "no_description"}] : n \in 0..MaxEdgeLen}}
    \cup {ListPayload(EdgeSeries(shapes)) :
            shapes \in [1..8 -> {"whole", "high", "no_pressure"}]}

EdgeEnvs == {[DefaultEnv EXCEPT !.GROQ_API_KEY = k] : k \in {NoneStr, "gsk"}}

InitEdge ==
    /\ env \in EdgeEnvs
    /\ groq = GroqOk(<<"a">>)
    /\ payload \in EdgePayloads
    /\ call = NoCall
    /\ NothingRuns

NextEdge ==
    \/ ProcessForecastData \/ FormatPressureMessage
    \/ DetectPressureAlert \/ FormatHourlyPressureMessage

SpecEdge == InitEdge /\ [][NextEdge]_vars

EmptyInput(data) ==
    /\ ~LacksList(data)
    /\ \/ Len(data.list) = 0
       \/ \E i \in DOMAIN data.list :
              ~data.list[i].hasWeather \/ Len(data.list[i].weather) = 0

\* C14: aggregating an empty list, or a list with a sample that has no
\* weather description, ends in EmptyInputError, called directly or through
\* format_pressure_message.
C14_EmptyInputError ==
    (/\ call.op \in {"process_forecast_data", "format_pressure_message"}
     /\ EmptyInput(payload)) =>
        call.ret.exc = "EmptyInputError"

\* A series of no sample, or one in which a sample among the first 8 lacks
\* the pressure field.
Malformed(data) ==
    /\ ~LacksList(data)
    /\ \/ Len(data.list) = 0
       \/ \E i \in DOMAIN data.list : i <= 8 /\ ~data.list[i].hasPressure

\* C15: on a series with no sample, or with one of the first 8 samples
\* lacking the pressure, detect_pressure_alert returns the no-alert result
\* and format_hourly_pressure_message returns a message; neither raises.
C15_MalformedSeries ==
    Malformed(payload) =>
        /\ call.op = "detect_pressure_alert" =>
               /\ call.ret.exc = ""
               /\ ~call.ret.val.triggered
               /\ call.ret.val.alert_message = <<>>
        /\ call.op = "format_hourly_pressure_message" => call.ret.exc = ""

(***************************************************************************)
(* The collaborators as the handlers use them.  An entry of log is         *)
(* [e, tag, text, ok]: a request to the provider ("get"), a put to the     *)
(* blob store ("put"), a post to the generation service ("post"), a        *)
(* composed message ("compose") or a push to LINE ("push").                *)
(***************************************************************************)
Event(e, tag, text, ok) == [e |-> e, tag |-> tag, text |-> text, ok |-> ok]

\* Lines 742: weather_types
WeatherTypes == <<(<<"hare", "x">>), (<<"kumori", "x">>), (<<"x", "ame">>),
                  (<<"x", "x", "x", "ame">>)>>

\* Lines 718-801: 5 days of 8 points from now on, 3 hours apart.
generate_dummy_forecast_data ==
    ListPayload(
        [k \in 1..40 |->
            LET day == (k - 1) \div 8
                hour == ((k - 1) % 8) * 3
            IN  [dt |-> world.now + day * 86400 + hour * 3600,
                 hasPressure |-> TRUE,
                 pressure |-> 10100 + day * 20 + (hour - 12) * 5,
                 temp |-> 200 + day * 10 + (hour - 12) * 5,
                 hasWeather |-> TRUE,
                 weather |-> <<WeatherTypes[(day % 4) + 1]>>]])

\* Lines 803-811
generate_dummy_hourly_data == generate_dummy_forecast_data

\* What the provider's JSON is when the request succeeds: a forecast of 8
\* samples with a 9 hPa jump into the fourth, an empty list, or no list.
ProviderJson(kind) ==
    IF kind = "valid"
    THEN ListPayload([i \in 1..8 |->
             Sample((i - 1) * 10800, IF i <= 3 THEN 10050 ELSE 10140,
                    IF i <= 3 THEN <<"kumori", "ame">> ELSE <<"hare">>)])
    ELSE IF kind = "empty" THEN ListPayload(<<>>)
    ELSE NoListPayload

(***************************************************************************)
(* The blob store.  The bucket is a function from keys to bodies.  A key   *)
(* "{data_type}/{name}.json" is [data_type, name], the name being the      *)
(* "%Y-%m-%d" text of a date as <<year, month, day>>; the dates of the     *)
(* model are those of January 1970, day number 0 being 1970-01-01.  A      *)
(* fault names the request to the store that raises in a call: "put",      *)
(* "list", "delete", "get", or "none".                                     *)
(***************************************************************************)
\* strftime('%Y-%m-%d') of the date with this day number.
StrfDate(day) == <<1970, 1, day + 1>>

\* datetime.strptime(text, '%Y-%m-%d').date(), as a day number; ValueError
\* when the text is not a date.
StrpDate(text) ==
    IF text[1] = 1970 /\ text[2] = 1 /\ text[3] \in 1..31 THEN Ret(text[3] - 1)
    ELSE Raise("ValueError")

\* Line 183: f"{data_type}/{date_str}.json"
FileName(data_type, date_str) == [data_type |-> data_type, name |-> date_str]

\* json.dumps of a payload: null, or an object with or without "list".
JsonDumps(data) ==
    IF data.isNone THEN [text |-> "null", members |-> {}, list |-> <<>>]
    ELSE [text |-> "object",
          members |-> IF data.hasList THEN {"list"} ELSE {},
          list |-> data.list]

\* json.loads of such a text.
JsonLoads(body) ==
    IF body.text = "null" THEN NonePayload
    ELSE IF "list" \in body.members THEN ListPayload(body.list)
    ELSE NoListPayload

\* put_object, delete_object and the keys list_objects_v2 returns for a
\* prefix, in the order of the keys.
PutObject(bucket, key, body) ==
    [k \in (DOMAIN bucket) \cup {key} |-> IF k = key THEN body ELSE bucket[k]]
DeleteObject(bucket, key) == [k \in (DOMAIN bucket) \ {key} |-> bucket[k]]
NameBefore(a, b) ==
    \/ a[1] < b[1]
    \/ a[1] = b[1] /\ a[2] < b[2]
    \/ a[1] = b[1] /\ a[2] = b[2] /\ a[3] < b[3]
ListObjects(bucket, prefix) ==
    LET found == {k \in DOMAIN bucket : k.data_type = prefix}
        rank(k) == Cardinality({j \in found : NameBefore(j.name, k.name)}) + 1
    IN  [i \in 1..Cardinality(found) |-> CHOOSE k \in found : rank(k) = i]

\* Lines 224-243: the loop over the listed objects from the i-th on.  A key
\* whose name is no date, or whose delete raises, is logged and skipped.
RECURSIVE CleanupLoop(_, _, _, _, _)
CleanupLoop(bucket, contents, i, cutoff_date, fault) ==
    IF i > Len(contents) THEN [bucket |-> bucket, events |-> <<>>]
    ELSE LET key == contents[i]
             file_date == StrpDate(key.name)
             delete == file_date.exc = "" /\ file_date.val < cutoff_date
             rest == CleanupLoop(IF delete /\ fault # "delete"
                                 THEN DeleteObject(bucket, key) ELSE bucket,
                                 contents, i + 1, cutoff_date, fault)
         IN  [bucket |-> rest.bucket,
              events |-> (IF delete
                          THEN <<Event("delete", key.data_type, key.name,
                                       fault # "delete")>>
                          ELSE <<>>) \o rest.events]

\* The cleanup with the cutoff at the current date.
cleanup_old_weather_data_until_today(bucket, data_type, today, fault) ==
    IF fault = "list"
    THEN [bucket |-> bucket, events |-> <<Event("list", data_type, <<>>, FALSE)>>]
    ELSE LET loop == CleanupLoop(bucket, ListObjects(bucket, data_type), 1,
                                 today, fault)
         IN  [bucket |-> loop.bucket,
              events |-> <<Event("list", data_type, <<>>, TRUE)>> \o loop.events]

\* The cleanup with the cutoff a day earlier: three days ago.
cleanup_old_weather_data_three_days(bucket, data_type, today, fault) ==
    IF fault = "list"
    THEN [bucket |-> bucket, events |-> <<Event("list", data_type, <<>>, FALSE)>>]
    ELSE LET loop == CleanupLoop(bucket, ListObjects(bucket, data_type), 1,
                                 today - 3, fault)
         IN  [bucket |-> loop.bucket,
              events |-> <<Event("list", data_type, <<>>, TRUE)>> \o loop.events]

\* Lines 203-245: [bucket, events].  Every exception is caught.
cleanup_old_weather_data(bucket, data_type, today, fault) ==
    IF fault = "list"
    THEN [bucket |-> bucket, events |-> <<Event("list", data_type, <<>>, FALSE)>>]
    ELSE LET loop == CleanupLoop(bucket, ListObjects(bucket, data_type), 1,
                                 today - 2, fault)
         IN  [bucket |-> loop.bucket,
              events |-> <<Event("list", data_type, <<>>, TRUE)>> \o loop.events]

\* Lines 153-201: [ok, events, bucket].  The exceptions of the store are
\* caught.
save_weather_data_to_s3(bucket, data, data_type, now, fault) ==
    IF ~env.S3_ENABLED THEN [ok |-> FALSE, events |-> <<>>, bucket |-> bucket]
    ELSE IF fault = "put"
         THEN [ok |-> FALSE, events |-> <<Event("put", data_type, <<>>, FALSE)>>,
               bucket |-> bucket]
    ELSE LET date_str == StrfDate(JSTDate(now))
             save_data == [timestamp |-> now, data |-> JsonDumps(data)]
             written == PutObject(bucket, FileName(data_type, date_str), save_data)
             cleaned == cleanup_old_weather_data(written, data_type, JSTDate(now),
                                                 fault)
         IN  [ok |-> TRUE,
              events |-> <<Event("put", data_type, <<>>, TRUE)>> \o cleaned.events,
              bucket |-> cleaned.bucket]

\* Lines 247-285: the payload saved yesterday, or None.
get_previous_day_weather_data(bucket, data_type, now, fault) ==
    LET file_name == FileName(data_type, StrfDate(JSTDate(now) - 1))
    IN  IF ~env.S3_ENABLED THEN NonePayload
        ELSE IF fault = "get" \/ file_name \notin DOMAIN bucket THEN NonePayload
        ELSE JsonLoads(bucket[file_name].data)

\* What the store does in a run of the handler.
Fault == IF world.s3_fails THEN "put" ELSE "none"

\* Lines 287-358: get_weather_forecast ('daily', outcome world.forecast) and
\* get_hourly_weather ('hourly', outcome world.hourly): [data, events,
\* bucket].
FetchForecast(bucket, outcome, data_type) ==
    IF ~Truthy(env.OPENWEATHER_API_KEY)
    THEN [data |-> NonePayload, events |-> <<>>, bucket |-> bucket]
    ELSE IF outcome \in {"http_error", "exception"}
         THEN [data |-> generate_dummy_forecast_data,
               events |-> <<Event("get", data_type, <<>>, FALSE)>>,
               bucket |-> bucket]
    ELSE LET saved == save_weather_data_to_s3(bucket, ProviderJson(outcome),
                                              data_type, world.now, Fault)
         IN  [data |-> ProviderJson(outcome),
              events |-> <<Event("get", data_type, <<>>, TRUE)>> \o saved.events,
              bucket |-> saved.bucket]

get_weather_forecast(bucket) == FetchForecast(bucket, world.forecast, "daily")
get_hourly_weather(bucket) == FetchForecast(bucket, world.hourly, "hourly")

Pushes(events) == SelectSeq(events, LAMBDA x : x.e = "push")

\* Lines 813-830: [exc, events], given the log so far.  The push that
\* world.push_fails_at numbers raises, and the exception is re-raised.
send_line_notification(message, sofar) ==
    IF ~env.line_bot_api THEN [exc |-> "", events |-> <<>>]
    ELSE IF Len(Pushes(sofar)) + 1 = world.push_fails_at
         THEN [exc |-> "LineBotApiError",
               events |-> <<Event("push", "", message, FALSE)>>]
    ELSE [exc |-> "", events |-> <<Event("push", "", message, TRUE)>>]

\* Lines 832-898: the message for one more city, or None (<<>>).
get_custom_region_forecast(city_id) ==
    IF world.custom = "ok" THEN <<[kind |-> "custom_region", city_id |-> city_id]>>
    ELSE <<>>

Posts(requests) == [i \in DOMAIN requests |-> Event("post", "", <<requests[i]>>, TRUE)]

\* city_id.strip() of the identifiers the model uses.
StripId(city_id) == IF city_id = " " THEN "" ELSE city_id

(***************************************************************************)
(* Loading the module.  Line 900 binds lambda_handler; run as a script,    *)
(* line 965 calls it; line 968 binds the name again.                       *)
(***************************************************************************)
Def900 ==
    /\ pc = "load"
    /\ lambda_handler' = "line900"
    /\ pc' = IF world.main THEN "main" ELSE "def968"
    /\ UNCHANGED <<funVars, call, environ, world, s3, frame, log, result>>

\* Line 965: lambda_handler(None, None)
RunMain ==
    /\ pc = "main"
    /\ pc' = IF lambda_handler = "line900" THEN "v1_fetch" ELSE "v2_dispatch"
    /\ UNCHANGED <<funVars, call, environ, world, s3, lambda_handler, frame, log, result>>

Def968 ==
    /\ pc = "def968"
    /\ lambda_handler' = "line968"
    /\ pc' = IF world.main THEN "exit" ELSE "loaded"
    /\ UNCHANGED <<funVars, call, environ, world, s3, frame, log, result>>

\* The Lambda runtime calls the handler the module exports.
Invoke ==
    /\ pc = "loaded"
    /\ pc' = IF lambda_handler = "line900" THEN "v1_fetch" ELSE "v2_dispatch"
    /\ UNCHANGED <<funVars, call, environ, world, s3, lambda_handler, frame, log, result>>

\* Where a handler returns to: the script goes on loading, the runtime is done.
ReturnTo == IF world.main THEN "def968" ELSE "done"

Return(status) ==
    /\ result' = [statusCode |-> status]
    /\ pc' = ReturnTo

Goto(label) ==
    /\ pc' = label
    /\ UNCHANGED result

(***************************************************************************)
(* lambda_handler of line 900.                                             *)
(***************************************************************************)
\* Lines 908-916
V1Fetch ==
    /\ pc = "v1_fetch"
    /\ LET f == get_weather_forecast(s3)
           h == get_hourly_weather(f.bucket)
       IN  /\ frame' = [frame EXCEPT !.forecast_data = f.data, !.hourly_data = h.data]
           /\ s3' = h.bucket
           /\ log' = log \o f.events \o h.events
           /\ IF f.data.isNone \/ h.data.isNone THEN Return(500) ELSE Goto("v1_save")
    /\ UNCHANGED <<funVars, call, environ, world, lambda_handler>>

\* Lines 919-921
V1Save ==
    /\ pc = "v1_save"
    /\ LET daily == save_weather_data_to_s3(s3, frame.forecast_data, "daily",
                                            world.now, Fault)
           hourly == save_weather_data_to_s3(daily.bucket, frame.hourly_data,
                                             "hourly", world.now, Fault)
       IN  /\ log' = log \o daily.events \o hourly.events
           /\ s3' = hourly.bucket
    /\ Goto("v1_compose")
    /\ UNCHANGED <<funVars, call, environ, world, lambda_handler, frame>>

\* Lines 924-925
V1Compose ==
    /\ pc = "v1_compose"
    /\ LET m == format_pressure_message(frame.forecast_data)
           h == format_hourly_pressure_message(frame.hourly_data)
       IN  IF m.out.exc # ""
           THEN /\ log' = log \o Posts(m.requests)
                /\ Return(500)
                /\ UNCHANGED frame
           ELSE IF h.out.exc # ""
                THEN /\ log' = log \o Posts(m.requests)
                                   \o <<Event("compose", "5day", m.out.val, TRUE)>>
                                   \o Posts(h.requests)
                     /\ Return(500)
                     /\ frame' = [frame EXCEPT !.message = m.out.val]
           ELSE /\ log' = log \o Posts(m.requests)
                              \o <<Event("compose", "5day", m.out.val, TRUE)>>
                              \o Posts(h.requests)
                              \o <<Event("compose", "24h", h.out.val, TRUE)>>
                /\ Goto("v1_send_5day")
                /\ frame' = [frame EXCEPT !.message = m.out.val,
                                          !.hourly_message = h.out.val]
    /\ UNCHANGED <<funVars, call, environ, world, s3, lambda_handler>>

\* Line 928
V1Send5Day ==
    /\ pc = "v1_send_5day"
    /\ LET r == send_line_notification(frame.message, log)
       IN  /\ log' = log \o r.events
           /\ IF r.exc # "" THEN Return(500) ELSE Goto("v1_send_24h")
    /\ UNCHANGED <<funVars, call, environ, world, s3, lambda_handler, frame>>

\* Line 929
V1Send24h ==
    /\ pc = "v1_send_24h"
    /\ LET r == send_line_notification(frame.hourly_message, log)
       IN  /\ log' = log \o r.events
           /\ IF r.exc # "" THEN Return(500) ELSE Goto("v1_custom")
    /\ UNCHANGED <<funVars, call, environ, world, s3, lambda_handler, frame>>

\* Lines 932-944, for the one identifier of CUSTOM_CITY_IDS.
V1Custom ==
    /\ pc = "v1_custom"
    /\ LET city_id == StripId(env.CUSTOM_CITY_IDS[1])
           custom_message == get_custom_region_forecast(city_id)
       IN  IF env.REGION_CUSTOMIZATION /\ city_id # "" /\ custom_message # <<>>
           THEN LET r == send_line_notification(custom_message, log)
                IN  /\ log' = log \o r.events
                    /\ IF r.exc # "" THEN Return(500) ELSE Return(200)
           ELSE /\ Return(200)
                /\ UNCHANGED log
    /\ UNCHANGED <<funVars, call, environ, world, s3, lambda_handler, frame>>

(***************************************************************************)
(* lambda_handler of line 968 and process_scheduled_event.  The names      *)
(* save_forecast_to_s3, get_health_advice_from_groq and                    *)
(* format_custom_region_message are defined nowhere: evaluating one raises *)
(* NameError, which the except clause of line 1144 turns into status 500.  *)
(***************************************************************************)
\* Lines 968-992: the scheduled event goes to process_scheduled_event; a
\* request without a body is answered 200.
V2Dispatch ==
    /\ pc = "v2_dispatch"
    /\ IF world.event = "scheduled" THEN Goto("ps_fetch") ELSE Return(200)
    /\ UNCHANGED <<funVars, call, environ, world, s3, lambda_handler, frame, log>>

\* Line 1109
PSFetch ==
    /\ pc = "ps_fetch"
    /\ LET f == get_weather_forecast(s3)
       IN  /\ frame' = [frame EXCEPT !.forecast_data = f.data]
           /\ s3' = f.bucket
           /\ log' = log \o f.events
    /\ Goto("ps_save")
    /\ UNCHANGED <<funVars, call, environ, world, lambda_handler>>

\* Lines 1112-1113: save_forecast_to_s3 is undefined.
PSSave ==
    /\ pc = "ps_save"
    /\ IF LowerWord(Default(environ.S3_ENABLED, "false")) = "true"
       THEN Return(500) ELSE Goto("ps_compose")
    /\ UNCHANGED <<funVars, call, environ, world, s3, lambda_handler, frame, log>>

\* Line 1116
PSCompose ==
    /\ pc = "ps_compose"
    /\ LET m == format_pressure_message(frame.forecast_data)
       IN  IF m.out.exc # ""
           THEN /\ log' = log \o Posts(m.requests)
                /\ Return(500)
                /\ UNCHANGED frame
           ELSE /\ log' = log \o Posts(m.requests)
                              \o <<Event("compose", "5day", m.out.val, TRUE)>>
                /\ Goto("ps_groq")
                /\ frame' = [frame EXCEPT !.message = m.out.val]
    /\ UNCHANGED <<funVars, call, environ, world, s3, lambda_handler>>

\* Lines 1119-1122: get_health_advice_from_groq is undefined.
PSGroq ==
    /\ pc = "ps_groq"
    /\ IF LowerWord(Default(environ.USE_GROQ, "false")) = "true"
       THEN Return(500) ELSE Goto("ps_send")
    /\ UNCHANGED <<funVars, call, environ, world, s3, lambda_handler, frame, log>>

\* Line 1125
PSSend ==
    /\ pc = "ps_send"
    /\ LET r == send_line_notification(frame.message, log)
       IN  /\ log' = log \o r.events
           /\ IF r.exc # "" THEN Return(500) ELSE Goto("ps_detect")
    /\ UNCHANGED <<funVars, call, environ, world, s3, lambda_handler, frame>>

\* Line 1128: the result is dropped.
PSDetect ==
    /\ pc = "ps_detect"
    /\ IF detect_pressure_alert(frame.forecast_data).exc # ""
       THEN Return(500) ELSE Goto("ps_custom")
    /\ UNCHANGED <<funVars, call, environ, world, s3, lambda_handler, frame, log>>

\* Lines 1131-1143, for the one identifier of CUSTOM_CITY_IDS:
\* format_custom_region_message is undefined.
PSCustom ==
    /\ pc = "ps_custom"
    /\ LET city_id == StripId(environ.CUSTOM_CITY_IDS[1])
       IN  IF /\ LowerWord(Default(environ.REGION_CUSTOMIZATION, "false")) = "true"
              /\ city_id # ""
              /\ get_custom_region_forecast(city_id) # <<>>
           THEN Return(500) ELSE Return(200)
    /\ UNCHANGED <<funVars, call, environ, world, s3, lambda_handler, frame, log>>

(***************************************************************************)
(* Spec: the module is loaded (imported by the Lambda runtime, or run as a *)
(* script) and, once imported, invoked once.                               *)
(***************************************************************************)
Environs ==
    {[PlainEnviron EXCEPT !.OPENWEATHER_API_KEY = o, !.GROQ_API_KEY = g,
                          !.USE_GROQ = u, !.S3_ENABLED = s,
                          !.REGION_CUSTOMIZATION = r,
                          !.CUSTOM_CITY_IDS = IF r = "true" THEN <<"1861084">> ELSE <<"">>,
                          !.LINE_CHANNEL_ACCESS_TOKEN = l] :
        o \in {NoneStr, "owm_key"}, g \in {NoneStr, "gsk"},
        u \in {NoneStr, "true", "false"}, s \in {NoneStr, "true"},
        r \in {NoneStr, "true"}, l \in {NoneStr, "line_token"}}

Outcomes == {"valid", "empty", "nolist", "http_error", "exception"}

Worlds ==
    [main : BOOLEAN, event : {"scheduled", "no_body"}, forecast : Outcomes,
     hourly : {"valid", "exception"}, s3_fails : BOOLEAN, push_fails_at : 0..3,
     custom : {"ok", "failed"}, now : {0, 54000}]

\* A choice is kept to one value where the run cannot depend on it.
Relevant(vars_, w) ==
    /\ w.main => w.event = "scheduled"
    /\ ~w.main => w.hourly = "valid"
    /\ vars_.OPENWEATHER_API_KEY = NoneStr =>
           (w.forecast = "valid" /\ w.hourly = "valid")
    /\ (w.forecast \notin {"http_error", "exception"} /\ w.hourly = "valid") => w.now = 0
    /\ vars_.S3_ENABLED = NoneStr => ~w.s3_fails
    /\ vars_.REGION_CUSTOMIZATION = NoneStr => w.custom = "ok"
    /\ vars_.LINE_CHANNEL_ACCESS_TOKEN = NoneStr => w.push_fails_at = 0

Init ==
    /\ environ \in Environs
    /\ env = Globals(environ)
    /\ world \in {w \in Worlds : Relevant(environ, w)}
    /\ groq \in IF GroqEnabled THEN {GroqOk(<<"a">>), GroqRaises} ELSE {GroqOk(<<"a">>)}
    /\ payload = NonePayload
    /\ call = NoCall
    /\ s3 = <<>>
    /\ lambda_handler = ""
    /\ pc = "load"
    /\ frame = NoFrame
    /\ log = <<>>
    /\ result = NoResult

Next ==
    \/ Def900 \/ RunMain \/ Def968 \/ Invoke
    \/ V1Fetch \/ V1Save \/ V1Compose \/ V1Send5Day \/ V1Send24h \/ V1Custom
    \/ V2Dispatch \/ PSFetch \/ PSSave \/ PSCompose \/ PSGroq \/ PSSend \/ PSDetect
    \/ PSCustom

Spec == Init /\ [][Next]_vars

(***************************************************************************)
(* SpecStore: saves and fetches of the two data types against one bucket,  *)
(* over the days 0..MaxDay.  A save or a fetch happens at the current      *)
(* time; a request to the store may raise in any call.  The bucket may     *)
(* hold from the start an object whose name is no date.  call holds, with  *)
(* the outcome, the data type, the fault and the requests made.            *)
(***************************************************************************)
DataTypes == {"hourly", "daily"}

\* What a fetch hands to the save: the provider's JSON of the hourly and of
\* the daily request.
StorePayloads(data_type) ==
    IF data_type = "hourly"
    THEN {ListPayload(<<Sample(0, 10050, <<"ame">>)>>), NoListPayload}
    ELSE {ListPayload(<<Sample(0, 10100, <<"hare">>)>>)}

NoDate == <<0, 0, 0>>

InitStore ==
    /\ env \in {[DefaultEnv EXCEPT !.S3_ENABLED = e] : e \in BOOLEAN}
    /\ groq = GroqOk(<<"a">>)
    /\ payload = NonePayload
    /\ call = NoCall
    /\ environ = PlainEnviron
    /\ world = NoWorld
    /\ s3 \in {<<>>,
               PutObject(<<>>, FileName("hourly", NoDate),
                         [timestamp |-> 0, data |-> JsonDumps(NonePayload)])}
    /\ lambda_handler = ""
    /\ pc = ""
    /\ frame = NoFrame
    /\ log = <<>>
    /\ result = NoResult

SaveWeatherDataToS3 ==
    \E data_type \in DataTypes, fault \in {"none", "put", "list", "delete"} :
      \E data \in StorePayloads(data_type) :
        LET r == save_weather_data_to_s3(s3, data, data_type, world.now, fault)
        IN  /\ payload' = data
            /\ s3' = r.bucket
            /\ call' = [op |-> "save_weather_data_to_s3", ret |-> Ret(r.ok),
                        requests |-> <<>>, calls |-> <<>>,
                        data_type |-> data_type, fault |-> fault,
                        events |-> r.events]
            /\ UNCHANGED <<env, groq, environ, world, lambda_handler, pc, frame,
                           log, result>>

GetPreviousDayWeatherData ==
    \E data_type \in DataTypes, fault \in {"none", "get"} :
        /\ call' = [op |-> "get_previous_day_weather_data",
                    ret |-> Ret(get_previous_day_weather_data(s3, data_type,
                                                              world.now, fault)),
                    requests |-> <<>>, calls |-> <<>>,
                    data_type |-> data_type, fault |-> fault, events |-> <<>>]
        /\ UNCHANGED <<funVars, runVars>>

\* A day passes between two invocations.
NextDay ==
    /\ JSTDate(world.now) < MaxDay
    /\ world' = [world EXCEPT !.now = @ + 86400]
    /\ call' = NoCall
    /\ UNCHANGED <<funVars, environ, s3, lambda_handler, pc, frame, log, result>>

NextStore == SaveWeatherDataToS3 \/ GetPreviousDayWeatherData \/ NextDay

SpecStore == InitStore /\ [][NextStore]_vars

(***************************************************************************)
(* Claims about the blob store (SpecStore).                                *)
(***************************************************************************)
Saved == call.op = "save_weather_data_to_s3" /\ call.ret.val = TRUE

\* C19: with persistence enabled and a working store, a payload saved for a
\* data type and fetched at once with get_previous_day_weather_data for the
\* same data type comes back identical to what was saved.
C19_RoundTrip ==
    (Saved /\ env.S3_ENABLED /\ call.fault = "none") =>
        get_previous_day_weather_data(s3, call.data_type, world.now, "none")
            = payload

\* The entries under the data type's prefix whose name is a date more than
\* two days before the current date.
StaleEntries(data_type) ==
    {k \in DOMAIN s3 : /\ k.data_type = data_type
                       /\ StrpDate(k.name).exc = ""
                       /\ StrpDate(k.name).val < JSTDate(world.now) - 2}

\* The entry of the current date holds the payload just written.
TodayHoldsPayload ==
    LET file_name == FileName(call.data_type, StrfDate(JSTDate(world.now)))
    IN  /\ file_name \in DOMAIN s3
        /\ s3[file_name].timestamp = world.now
        /\ JsonLoads(s3[file_name].data) = payload

\* The requests of the cleanup come after a put that succeeded.
CleanupAfterWrite ==
    call.op = "save_weather_data_to_s3" =>
        \A i \in 1..Len(call.events) :
            call.events[i].e \in {"list", "delete"} =>
                /\ i > 1
                /\ call.events[1] = Event("put", call.data_type, <<>>, TRUE)

\* A request of the cleanup that raises leaves the save successful.
CleanupFailureKeepsSave ==
    (/\ call.op = "save_weather_data_to_s3"
     /\ env.S3_ENABLED
     /\ call.fault \in {"list", "delete"}) => call.ret.val = TRUE

\* C20, as stated: after every successful save for a data type no entry of
\* that type is dated more than two days before the current date, the entry
\* of the current date holds the payload just written, the cleanup runs only
\* after a successful write, and a failing cleanup does not fail the save.
C20_AsStated ==
    /\ Saved => StaleEntries(call.data_type) = {} /\ TodayHoldsPayload
    /\ CleanupAfterWrite
    /\ CleanupFailureKeepsSave

\* C20, amended: as stated, except that no entry is dated more than two days
\* before the current date only after a save whose cleanup requests did not
\* raise.
C20_SaveAndCleanup ==
    /\ Saved => /\ call.fault = "none" => StaleEntries(call.data_type) = {}
                /\ TodayHoldsPayload
    /\ CleanupAfterWrite
    /\ CleanupFailureKeepsSave

\* C20: a working save has deleted an entry three days old, next to an
\* object whose name is no date.
C20_Witness ==
    /\ Saved
    /\ call.fault = "none"
    /\ Event("delete", call.data_type, StrfDate(JSTDate(world.now) - 3), TRUE)
           \in {call.events[i] : i \in 1..Len(call.events)}
    /\ FileName(call.data_type, NoDate) \in DOMAIN s3
    /\ FileName(call.data_type, StrfDate(JSTDate(world.now) - 2)) \in DOMAIN s3

\* The key of a data type's entry of the current date.
TodayKey(data_type) == FileName(data_type, StrfDate(JSTDate(world.now)))

\* What a working fetch of a data type returns from the bucket now.
Fetched(data_type) ==
    get_previous_day_weather_data(s3, data_type, world.now, "none")

\* The entries a save of a data type has to leave in the bucket: those of
\* the other data types, those whose name is no date, and those dated
\* yesterday or later.
Recent(data_type) ==
    {k \in DOMAIN s3 : \/ k.data_type # data_type
                       \/ StrpDate(k.name).exc # ""
                       \/ StrpDate(k.name).val >= JSTDate(world.now) - 1}

\* A step of save_weather_data_to_s3 keeps the recent entries, and alters
\* none but the entry it writes.
SaveKeepsRecent ==
    call'.op = "save_weather_data_to_s3" =>
        /\ \A k \in Recent(call'.data_type) :
               /\ k \in DOMAIN s3'
               /\ k # TodayKey(call'.data_type) => s3'[k] = s3[k]
        /\ \A i \in 1..Len(call'.events) :
               call'.events[i].e = "delete" =>
                   /\ call'.events[i].tag = call'.data_type
                   /\ StrpDate(call'.events[i].text).val < JSTDate(world.now) - 1
        /\ \A data_type \in DataTypes : Fetched(data_type)' = Fetched(data_type)
        /\ (call'.ret.val = TRUE) => TodayHoldsPayload'

\* When a day has passed, a working fetch returns what the entry of the day
\* before holds.
NextDayFetchesSaved ==
    world'.now = world.now + 86400 =>
        \A data_type \in DataTypes :
            Fetched(data_type)' =
                IF env.S3_ENABLED /\ TodayKey(data_type) \in DOMAIN s3
                THEN JsonLoads(s3[TodayKey(data_type)].data)
                ELSE NonePayload

\* C21: over any sequence of saves, fetches and days, the cleanup of a save
\* deletes no entry dated today or yesterday and no entry of another data
\* type; the entry of the day holds the payload of the day's last successful
\* save of its type, the fetch of the next day returns it, and the saves of
\* the next day do not change what that fetch returns.
C21_NextDayFetch == [][SaveKeepsRecent /\ NextDayFetchesSaved]_vars

\* C21: on a later day a working save of a data type has deleted an old
\* entry of its type while the entry of the day before, holding another
\* payload than the one just written, and an old entry of the other data
\* type are in the bucket; the fetch returns the payload of the day before.
C21_Witness ==
    /\ Saved
    /\ call.fault = "none"
    /\ \E i \in 1..Len(call.events) :
           call.events[i].e = "delete" /\ call.events[i].ok
    /\ FileName(call.data_type, StrfDate(JSTDate(world.now) - 1)) \in DOMAIN s3
    /\ \E k \in DOMAIN s3 :
           /\ k.data_type # call.data_type
           /\ StrpDate(k.name).exc = ""
           /\ StrpDate(k.name).val < JSTDate(world.now) - 2
    /\ Fetched(call.data_type) # payload
    /\ ~Fetched(call.data_type).isNone

(***************************************************************************)
(* Claims about the scheduled invocation (Spec).                           *)
(***************************************************************************)
ScheduledDone == pc = "done" /\ world.event = "scheduled"

SendFailed == \E i \in DOMAIN log : log[i].e = "push" /\ ~log[i].ok

\* Either handler has returned from a scheduled invocation.
ScheduledReturned == result # NoResult /\ world.event = "scheduled"

\* C6: a scheduled invocation returns statusCode 500 if and only if a
\* notification send failed; every other failure (credential, fetch,
\* generation, blob store, empty or malformed payload) still ends in 200.
C6_FailureIffSendFailed ==
    ScheduledReturned => (result.statusCode = 500 <=> SendFailed)

\* The provider's key and the LINE token are set, every other variable is
\* left to its default, and no collaborator fails.
NothingFails ==
    /\ environ = PlainEnviron
    /\ world.forecast = "valid"
    /\ ~world.s3_fails
    /\ world.push_fails_at = 0
    /\ ~groq.raises

Composed(tag) == {i \in DOMAIN log : log[i].e = "compose" /\ log[i].tag = tag}
PushedAt == {i \in DOMAIN log : log[i].e = "push"}

\* C7: in a scheduled invocation in which no external call fails the
\* handler bound to lambda_handler pushes exactly two messages, the composed
\* 5-day message and then the composed 24h message, each after it was
\* composed.
C7_BothMessagesPushed ==
    (ScheduledDone /\ NothingFails) =>
        /\ Cardinality(PushedAt) = 2
        /\ \E a \in Composed("5day"), b \in Composed("24h"), i, j \in PushedAt :
               /\ a < i /\ b < j /\ i < j
               /\ log[i].text = log[a].text
               /\ log[j].text = log[b].text

\* The handler has called get_weather_forecast (and, in the handler of line
\* 900, get_hourly_weather): frame holds what they returned.
FetchedV1 == world.main /\ pc \notin {"load", "main", "v1_fetch"}
FetchedPS ==
    /\ ~world.main /\ world.event = "scheduled"
    /\ pc \notin {"load", "def968", "loaded", "v2_dispatch", "ps_fetch"}

\* The provider's data is unavailable: no credential, an HTTP error status
\* or another exception during the fetch.
Unavailable(outcome) ==
    ~Truthy(env.OPENWEATHER_API_KEY) \/ outcome \in {"http_error", "exception"}

\* A list of exactly 40 samples, each 3 hours after the one before.
Synthetic(data) ==
    /\ ~data.isNone /\ data.hasList
    /\ Len(data.list) = 40
    /\ \A i \in 1..39 : data.list[i + 1].dt = data.list[i].dt + 3 * 3600

\* C16: get_weather_forecast and get_hourly_weather never return None, and
\* return the synthetic series of 40 samples at a 3-hour step whenever the
\* provider's data is unavailable.
C16_SyntheticFallback ==
    /\ (FetchedV1 \/ FetchedPS) =>
           /\ ~frame.forecast_data.isNone
           /\ Unavailable(world.forecast) => Synthetic(frame.forecast_data)
    /\ FetchedV1 =>
           /\ ~frame.hourly_data.isNone
           /\ Unavailable(world.hourly) => Synthetic(frame.hourly_data)

====
